---- MODULE Spec2Model ----
(***************************************************************************)
(* Model of src/app.py: the Flask handler summarizer() and its two helpers *)
(* get_text_from_url() and query_summarization_model().                    *)
(*                                                                         *)
(* Texts (form input, article text, payload, tokens) are sequences of      *)
(* one-character strings so that strip(), lower(), startswith(), slicing   *)
(* and the substring test of Python are computed, not assumed.  Python     *)
(* values that may be None or of several types (decoded JSON, the returned *)
(* summary, the error) are tagged records [t |-> type, v |-> value].       *)
(***************************************************************************)
EXTENDS Integers, Sequences, FiniteSets, TLC

(* ------------------------------ bounds -------------------------------- *)
\* number of request slots; Spec runs the handler for request 1, ConcSpec
\* runs the handlers of all requests interleaved
NumRequests == 2
\* the loop of query_summarization_model is run for every declared retry
\* count 1..MaxRetries (the source declares retries=3)
MaxRetries == 3
\* pasted long texts have max_input_length - 1 + k characters, k in 0..MaxExtra
MaxExtra == 2

Reqs == 1..NumRequests

(* ------------------------- program constants -------------------------- *)
\* line 37: max_input_length = 1024 * 5
max_input_length == 1024 * 5
\* lines 46-48: fixed generation parameters
parameters == [min_length |-> 60, max_length |-> 200, do_sample |-> FALSE]
\* line 56: timeout=60
timeout == 60
\* line 14
API_URL_SUMMARIZATION == "https://api-inference.huggingface.co/models/facebook/bart-large-cnn"

\* line 12: the shipped value of HF_API_TOKEN
DefaultToken == <<"H","F","_","T","O","K","E","N">>
\* line 33: the placeholder the credential check looks for
PlaceholderText ==
  <<"Y","O","U","R","_","N","E","W","_","H","U","G","G","I","N","G","_",
    "F","A","C","E","_","A","P","I","_","T","O","K","E","N">>
\* the key looked up in the decoded response (lines 59-60), as characters
SummaryKeyChars == <<"s","u","m","m","a","r","y","_","t","e","x","t">>

(* --------------------------- Python strings --------------------------- *)
Whitespace == {" ", "\t", "\n", "\r"}

LowerOf ==
  [A |-> "a", B |-> "b", C |-> "c", D |-> "d", E |-> "e", F |-> "f",
   G |-> "g", H |-> "h", I |-> "i", J |-> "j", K |-> "k", L |-> "l",
   M |-> "m", N |-> "n", O |-> "o", P |-> "p", Q |-> "q", R |-> "r",
   S |-> "s", T |-> "t", U |-> "u", V |-> "v", W |-> "w", X |-> "x",
   Y |-> "y", Z |-> "z"]

\* Lower leaving the case as it is
LowerIdentity(s) == s

\* str.lower()
Lower(s) == [i \in 1..Len(s) |-> IF s[i] \in DOMAIN LowerOf THEN LowerOf[s[i]] ELSE s[i]]

RECURSIVE LStrip(_)
LStrip(s) == IF s # <<>> /\ Head(s) \in Whitespace THEN LStrip(Tail(s)) ELSE s

RECURSIVE RStrip(_)
RStrip(s) ==
  IF s # <<>> /\ s[Len(s)] \in Whitespace THEN RStrip(SubSeq(s, 1, Len(s) - 1)) ELSE s

\* str.strip()
Strip(s) == RStrip(LStrip(s))

\* str.startswith(prefix)
StartsWith(s, prefix) ==
  Len(s) >= Len(prefix) /\ SubSeq(s, 1, Len(prefix)) = prefix

\* `sub in s` on strings
Contains(s, sub) ==
  \E i \in 0..(Len(s) - Len(sub)) : SubSeq(s, i + 1, i + Len(sub)) = sub

\* s[:n]
Slice(s, n) == SubSeq(s, 1, IF Len(s) < n THEN Len(s) ELSE n)

(* ---------------------------- Python values --------------------------- *)
PyNone == [t |-> "None", v |-> <<>>]
PyStr(s) == [t |-> "str", v |-> s]
PyNum(n) == [t |-> "num", v |-> n]
PyList(l) == [t |-> "list", v |-> l]
PyDict(d) == [t |-> "dict", v |-> d]
\* an error message: the fixed text and the formatted exception {e}
PyMsg(m, e) == [t |-> "msg", v |-> m, e |-> e]

\* truth value of a Python object (`if x:`)
Truthy(x) ==
  CASE x.t = "None" -> FALSE
    [] x.t = "str"  -> Len(x.v) > 0
    [] x.t = "num"  -> x.v # 0
    [] x.t = "list" -> Len(x.v) > 0
    [] x.t = "dict" -> DOMAIN x.v # {}
    [] x.t = "msg"  -> TRUE

(* ------------------ external library: nltk.sent_tokenize -------------- *)
\* Punkt segmentation on plain prose without abbreviations: a sentence ends
\* at a terminator followed by whitespace, the next sentence starts at the
\* next token, the last sentence loses trailing whitespace and an empty last
\* sentence is dropped.
Terminators == {".", "!", "?"}

Breaks(s) == {i \in 1..(Len(s) - 1) : s[i] \in Terminators /\ s[i + 1] \in Whitespace}

Least(S) == CHOOSE i \in S : \A j \in S : i <= j

\* sent_tokenize returning the text as one sentence
sent_tokenizeWhole(s) == IF RStrip(s) = <<>> THEN <<>> ELSE <<RStrip(s)>>

RECURSIVE sent_tokenize(_)
sent_tokenize(s) ==
  IF Breaks(s) = {}
  THEN IF RStrip(s) = <<>> THEN <<>> ELSE <<RStrip(s)>>
  ELSE LET b == Least(Breaks(s))
       IN  <<SubSeq(s, 1, b)>> \o sent_tokenize(LStrip(SubSeq(s, b + 1, Len(s))))

(* ----------------------- inputs and environment ---------------------- *)
\* a text of n characters whose content identifies every position mod 3
LongText(n) == [i \in 1..n |-> IF i % 3 = 0 THEN "c" ELSE IF i % 3 = 1 THEN "a" ELSE "b"]

HiYo == <<"H","i","."," ","Y","o",".">>
Ok == <<"O","k",".">>

\* request.form: a mapping that may lack the user_input field
NoField == [k \in {} |-> <<>>]
Field(s) == [user_input |-> s]

ShortInputs ==
  { <<>>,
    <<" ", "\t">>,
    <<"h","t","t","p",":","/","/","a">>,
    <<" ","H","t","T","p","S",":","/","/","A","\n">>,
    <<"h","t","t","p","d"," ","l","o","g",".">>,
    <<"h","t","t">>,
    HiYo,
    <<" ">> \o Ok \o <<" ">> }

LongInputs == {LongText(max_input_length - 1 + k) : k \in 0..MaxExtra}

Forms == {NoField} \cup {Field(s) : s \in ShortInputs \cup LongInputs}

Methods == {"GET", "POST"}

\* what newspaper.Article does for a URL: download() or parse() raises an
\* exception with text e, or article.text is the extracted text (possibly
\* empty); line 81 catches every Exception, whatever its text
Extractions ==
  { [raised |-> "download", e |-> "ConnectionError", text |-> <<>>],
    [raised |-> "download", e |-> "failed", text |-> <<>>],
    [raised |-> "parse", e |-> "ParserError", text |-> <<>>],
    [raised |-> "parse", e |-> "failed", text |-> <<>>],
    [raised |-> "", e |-> "", text |-> <<>>],
    [raised |-> "", e |-> "", text |-> HiYo],
    [raised |-> "", e |-> "", text |-> LongText(max_input_length + 1)] }

\* decoded JSON bodies the endpoint may answer with
Bodies ==
  { PyList(<<PyDict([summary_text |-> PyStr(HiYo)])>>),
    PyList(<<PyDict([summary_text |-> PyStr(Ok), score |-> PyNum(1)]),
             PyDict([summary_text |-> PyStr(HiYo)])>>),
    PyList(<<PyDict([summary_text |-> PyStr(<<>>)])>>),
    PyList(<<PyDict([summary_text |-> PyStr(<<" ">>)])>>),
    PyList(<<PyDict([summary_text |-> PyNone])>>),
    PyList(<<PyDict([summary_text |-> PyNum(42)])>>),
    PyList(<<PyDict([generated_text |-> PyStr(Ok)])>>),
    PyList(<<>>),
    PyDict([error |-> PyStr(Ok)]),
    PyDict([summary_text |-> PyStr(Ok)]),
    PyList(<<PyNum(5)>>),
    PyList(<<PyNone>>),
    PyList(<<PyStr(Ok)>>),
    PyList(<<PyStr(SummaryKeyChars)>>),
    PyList(<<PyList(<<PyStr(SummaryKeyChars)>>)>>) }

\* what requests.post / raise_for_status / json do for one attempt:
\* raised: the exception requests.post raises ("" if it returns);
\* status: the HTTP status; json: whether the body decodes; body: the value
PostOutcomes ==
  { [raised |-> "ConnectionError", status |-> 0, json |-> FALSE, body |-> PyNone],
    [raised |-> "ReadTimeout", status |-> 0, json |-> FALSE, body |-> PyNone],
    [raised |-> "", status |-> 503, json |-> TRUE, body |-> PyDict([error |-> PyStr(Ok)])],
    [raised |-> "", status |-> 500, json |-> TRUE,
     body |-> PyList(<<PyDict([summary_text |-> PyStr(Ok)])>>)],
    [raised |-> "", status |-> 200, json |-> FALSE, body |-> PyNone] }
  \cup {[raised |-> "", status |-> 200, json |-> TRUE, body |-> b] : b \in Bodies}

\* values of the process-wide HF_API_TOKEN (line 12 as shipped, or edited)
Tokens ==
  { <<>>,
    DefaultToken,
    PlaceholderText,
    <<"<">> \o PlaceholderText \o <<">">>,
    <<"h","f","_","x","Y","z">> }

(* ----------------------------- messages ------------------------------- *)
MsgNotConfigured == "Error: Hugging Face API Token not configured."
MsgTruncated == "Input text was truncated to a reasonable length for the model."
MsgParse == "Error: Could not parse model response or no summary found."
MsgRequestFailed == "Error: Summarization API request failed. "
MsgUnexpected == "Error: An unexpected error occurred. "
MsgRetries == "Error: Summarization Model query failed after multiple retries."
MsgNoText == "Could not extract article text from the URL. The page might be empty or require JavaScript."
MsgUrlFailed == "Failed to process the URL. Please check if it's a valid article URL. Error: "
MsgPleaseEnter == "Please enter a URL or paste some text."
MsgAcquired == "Content acquired. Generating summary..."
MsgSuccess == "Summary generated successfully!"
MsgNoSummary == "The model did not return a summary."

(* ------------------------------- state -------------------------------- *)
VARIABLES
  HF_API_TOKEN,   \* line 12: the process-wide credential
  retries,        \* line 32: the declared retry count of the model query
  req             \* per request: the frame of summarizer() and of its callees

vars == <<HF_API_TOKEN, retries, req>>

\* line 53: response_obj = None
NoResponse == [status |-> 0, json |-> FALSE, body |-> PyNone]

\* line 75: no Article yet; line 56: no attempt yet
NoArticle == [raised |-> "", e |-> "", text |-> <<>>]
NoOutcome == [raised |-> "", status |-> 0, json |-> FALSE, body |-> PyNone]

\* the frame of a request that has not arrived yet
NewFrame ==
  [ pc |-> "idle",
    method |-> "", form |-> NoField,
    \* locals of summarizer()
    bullet_points |-> <<>>, source_info |-> <<"", <<>> >>,
    user_input |-> <<>>, article_text |-> PyStr(<<>>), error |-> PyNone,
    summary_text |-> PyNone,
    \* locals of query_summarization_model()
    text_to_summarize |-> <<>>, headers |-> <<>>, payload |-> PyNone,
    i |-> 0, response_obj |-> NoResponse,
    \* the session's flashed messages, in order
    flashes |-> <<>>,
    \* history: calls made and payloads rendered by this request
    calls |-> 0, posts |-> <<>>, fetches |-> 0, rendered |-> <<>>,
    \* history: what the page fetch and the POST did for this request, and
    \* whether a json() failure was a RequestException
    article |-> NoArticle, outcome |-> NoOutcome, json_error |-> FALSE ]

Init ==
  /\ HF_API_TOKEN \in Tokens
  /\ retries \in 1..MaxRetries
  /\ req = [r \in Reqs |-> NewFrame]

\* flask.flash(message, category)
flash(f, message, category) ==
  [f EXCEPT !.flashes = Append(@, [category |-> category, message |-> message])]

\* dict.get(key, default) on request.form
FormGet(form, default) ==
  IF "user_input" \in DOMAIN form THEN form.user_input ELSE default

(* ---------------------- get_text_from_url (72-83) --------------------- *)
\* get_text_from_url without the test of line 78
get_text_from_urlNoEmptyCheck(x) ==
  IF x.raised # ""
  THEN <<PyNone, PyMsg(MsgUrlFailed, x.e)>>
  ELSE <<PyStr(x.text), PyNone>>

\* the pair (text, error) returned for what newspaper did
get_text_from_url(x) ==
  IF x.raised # ""
  THEN <<PyNone, PyMsg(MsgUrlFailed, x.e)>>
  ELSE IF x.text = <<>>
       THEN <<PyNone, PyMsg(MsgNoText, "")>>
       ELSE <<PyStr(x.text), PyNone>>

(* ------------------ query_summarization_model (32-69) ----------------- *)
\* line 33: the credential check
TokenRejected(token) == token = <<>> \/ Contains(token, PlaceholderText)

\* line 59/60: `"summary_text" in x` and x["summary_text"] raise TypeError
\* on values that are no containers, resp. no mappings
HasSummaryKey(x) ==
  CASE x.t = "dict" -> IF "summary_text" \in DOMAIN x.v THEN "True" ELSE "False"
    [] x.t = "str"  -> IF Contains(x.v, SummaryKeyChars) THEN "True" ELSE "False"
    [] x.t = "list" -> IF \E j \in 1..Len(x.v) :
                            x.v[j].t = "str" /\ x.v[j].v = SummaryKeyChars
                       THEN "True" ELSE "False"
    [] OTHER -> "TypeError"

\* lines 59-62 and, for a TypeError raised there, 66-67
ParseResult(result) ==
  IF result.t = "list" /\ Len(result.v) > 0
  THEN CASE HasSummaryKey(result.v[1]) = "TypeError" ->
              <<PyNone, PyMsg(MsgUnexpected, "TypeError")>>
         [] HasSummaryKey(result.v[1]) = "False" ->
              <<PyNone, PyMsg(MsgParse, "")>>
         [] HasSummaryKey(result.v[1]) = "True" ->
              IF result.v[1].t = "dict"
              THEN <<result.v[1].v.summary_text, PyNone>>
              ELSE <<PyNone, PyMsg(MsgUnexpected, "TypeError")>>
  ELSE <<PyNone, PyMsg(MsgParse, "")>>

\* AttemptResult without raise_for_status()
AttemptResultNoStatusCheck(o, jsonErrorIsRequestException) ==
  IF o.raised # "" THEN <<PyNone, PyMsg(MsgRequestFailed, o.raised)>>
  ELSE IF ~o.json
       THEN IF jsonErrorIsRequestException
            THEN <<PyNone, PyMsg(MsgRequestFailed, "JSONDecodeError")>>
            ELSE <<PyNone, PyMsg(MsgUnexpected, "JSONDecodeError")>>
  ELSE ParseResult(o.body)

\* lines 56-67: the pair one attempt produces.  jsonErrorIsRequestException:
\* response.json() raises requests.exceptions.JSONDecodeError (a
\* RequestException) in requests >= 2.27 and a plain ValueError before
AttemptResult(o, jsonErrorIsRequestException) ==
  IF o.raised # "" THEN <<PyNone, PyMsg(MsgRequestFailed, o.raised)>>
  ELSE IF o.status >= 400 THEN <<PyNone, PyMsg(MsgRequestFailed, "HTTPError")>>
  ELSE IF ~o.json
       THEN IF jsonErrorIsRequestException
            THEN <<PyNone, PyMsg(MsgRequestFailed, "JSONDecodeError")>>
            ELSE <<PyNone, PyMsg(MsgUnexpected, "JSONDecodeError")>>
  ELSE ParseResult(o.body)

\* AttemptExit retrying after a failed request instead of returning
AttemptExitRetrying(res) ==
  IF res[2].t = "msg" /\ res[2].v = MsgRequestFailed THEN "continue" ELSE "return"

\* lines 60-67: how the loop body is left after an attempt with this result;
\* every branch is a return statement
AttemptExit(res) == "return"

\* the return of query_summarization_model into line 109
Return(f, res) ==
  [f EXCEPT !.pc = "Summarized", !.summary_text = res[1], !.error = res[2]]

\* Truncate cutting one character short of the budget
TruncateOffByOne(text) ==
  IF Len(text) > max_input_length THEN Slice(text, max_input_length - 1) ELSE text

\* lines 37-39: the text the payload carries
Truncate(text) ==
  IF Len(text) > max_input_length THEN Slice(text, max_input_length) ELSE text

(* ------------------------- summarizer (86-121) ------------------------ *)
\* a request arrives; lines 88-89 initialise the result
Receive(r) ==
  /\ req[r].pc = "idle"
  /\ \E m \in Methods, form \in Forms :
       req' = [req EXCEPT ![r] =
                 [NewFrame EXCEPT !.pc = "AwaitingInput", !.method = m, !.form = form]]
  /\ UNCHANGED <<HF_API_TOKEN, retries>>

\* ModelCallGuard without the test of line 107
ModelCallGuardAlways(article_text) == TRUE

\* line 107: a falsy article_text skips the model call
ModelCallGuard(article_text) == Truthy(article_text)

\* lines 91-99 and 103-105: read and classify the input
CheckInput(r) ==
  /\ req[r].pc = "AwaitingInput"
  /\ LET f == req[r]
         user_input == Strip(FormGet(f.form, <<>>))
     IN  req' = [req EXCEPT ![r] =
           IF f.method # "POST"
           THEN [f EXCEPT !.pc = "Render"]
           ELSE IF user_input = <<>>
           THEN [flash(f, PyMsg(MsgPleaseEnter, ""), "warning") EXCEPT
                   !.user_input = user_input, !.article_text = PyStr(<<>>),
                   !.error = PyNone, !.pc = "Acquired"]
           ELSE IF StartsWith(Lower(user_input), <<"h","t","t","p">>)
           THEN [f EXCEPT !.user_input = user_input, !.article_text = PyStr(<<>>),
                          !.error = PyNone,
                          !.source_info = <<"From URL: ", user_input>>,
                          !.pc = "Acquiring"]
           ELSE [f EXCEPT !.user_input = user_input, !.error = PyNone,
                          !.source_info = <<"From Pasted Text", <<>> >>,
                          !.article_text = PyStr(user_input),
                          !.pc = "Acquired"]]
  /\ UNCHANGED <<HF_API_TOKEN, retries>>

\* lines 100-102: the page fetch returns
Acquire(r) ==
  /\ req[r].pc = "Acquiring"
  /\ \E x \in Extractions :
       LET f == req[r]
           res == get_text_from_url(x)
           g == [f EXCEPT !.article_text = res[1], !.error = res[2],
                          !.fetches = @ + 1, !.article = x, !.pc = "Acquired"]
       IN  req' = [req EXCEPT ![r] =
                     IF Truthy(res[2]) THEN flash(g, res[2], "danger") ELSE g]
  /\ UNCHANGED <<HF_API_TOKEN, retries>>

\* lines 107-109: call the model if there is text
CallModel(r) ==
  /\ req[r].pc = "Acquired"
  /\ LET f == req[r]
     IN  req' = [req EXCEPT ![r] =
           IF ModelCallGuard(f.article_text)
           THEN [flash(f, PyMsg(MsgAcquired, ""), "info") EXCEPT
                   !.calls = @ + 1, !.text_to_summarize = f.article_text.v,
                   !.pc = "CheckToken"]
           ELSE [f EXCEPT !.pc = "Render"]]
  /\ UNCHANGED <<HF_API_TOKEN, retries>>

\* lines 33-34
CheckToken(r) ==
  /\ req[r].pc = "CheckToken"
  /\ LET f == req[r]
     IN  req' = [req EXCEPT ![r] =
           IF TokenRejected(HF_API_TOKEN)
           THEN Return(f, <<PyNone, PyMsg(MsgNotConfigured, "")>>)
           ELSE [f EXCEPT !.pc = "Truncate"]]
  /\ UNCHANGED <<HF_API_TOKEN, retries>>

\* lines 36-53: truncate, build headers and payload
BuildPayload(r) ==
  /\ req[r].pc = "Truncate"
  /\ LET f == req[r]
         g == IF Len(f.text_to_summarize) > max_input_length
              THEN flash(f, PyMsg(MsgTruncated, ""), "warning") ELSE f
         text == Truncate(f.text_to_summarize)
     IN  req' = [req EXCEPT ![r] =
           [g EXCEPT !.text_to_summarize = text,
                     !.headers = <<"Bearer ", HF_API_TOKEN>>,
                     !.payload = [inputs |-> text, parameters |-> parameters],
                     !.response_obj = NoResponse, !.i = 0, !.pc = "LoopHead"]]
  /\ UNCHANGED <<HF_API_TOKEN, retries>>

\* line 54, and line 69 when the range is exhausted
LoopHead(r) ==
  /\ req[r].pc = "LoopHead"
  /\ LET f == req[r]
     IN  req' = [req EXCEPT ![r] =
           IF f.i < retries
           THEN [f EXCEPT !.pc = "Posting"]
           ELSE Return(f, <<PyNone, PyMsg(MsgRetries, "")>>)]
  /\ UNCHANGED <<HF_API_TOKEN, retries>>

\* lines 56-67: one attempt; requests.post returns or raises
Post(r) ==
  /\ req[r].pc = "Posting"
  /\ \E o \in PostOutcomes, jsonErrorIsRequestException \in BOOLEAN :
       LET f == req[r]
           res == AttemptResult(o, jsonErrorIsRequestException)
           g == [f EXCEPT
                   !.posts = Append(@, [url |-> API_URL_SUMMARIZATION,
                                        headers |-> f.headers, json |-> f.payload,
                                        timeout |-> timeout]),
                   !.outcome = o,
                   !.json_error = jsonErrorIsRequestException
                                    /\ o.raised = "" /\ o.status < 400 /\ ~o.json,
                   !.response_obj = IF o.raised = ""
                                    THEN [status |-> o.status, json |-> o.json,
                                          body |-> o.body]
                                    ELSE @]
       IN  req' = [req EXCEPT ![r] =
                     IF AttemptExit(res) = "return"
                     THEN Return(g, res)
                     ELSE [g EXCEPT !.i = @ + 1, !.pc = "LoopHead"]]
  /\ UNCHANGED <<HF_API_TOKEN, retries>>

\* AfterModel testing `summary_text is not None` on line 112
AfterModelNotNone(r) ==
  /\ req[r].pc = "Summarized"
  /\ LET f == req[r]
     IN  req' = [req EXCEPT ![r] =
           IF Truthy(f.error)
           THEN [flash(f, f.error, "danger") EXCEPT !.pc = "Render"]
           ELSE IF f.summary_text.t # "None"
           THEN [f EXCEPT !.pc = "Splitting"]
           ELSE [flash(f, PyMsg(MsgNoSummary, ""), "warning") EXCEPT !.pc = "Render"]]
  /\ UNCHANGED <<HF_API_TOKEN, retries>>

\* AfterModel with `if` in place of the `elif` of line 112
AfterModelNoElif(r) ==
  /\ req[r].pc = "Summarized"
  /\ LET f == req[r]
         g == IF Truthy(f.error) THEN flash(f, f.error, "danger") ELSE f
     IN  req' = [req EXCEPT ![r] =
           IF Truthy(f.summary_text)
           THEN [g EXCEPT !.pc = "Splitting"]
           ELSE [flash(g, PyMsg(MsgNoSummary, ""), "warning") EXCEPT !.pc = "Render"]]
  /\ UNCHANGED <<HF_API_TOKEN, retries>>

\* lines 110-112 and 116-117
AfterModel(r) ==
  /\ req[r].pc = "Summarized"
  /\ LET f == req[r]
     IN  req' = [req EXCEPT ![r] =
           IF Truthy(f.error)
           THEN [flash(f, f.error, "danger") EXCEPT !.pc = "Render"]
           ELSE IF Truthy(f.summary_text)
           THEN [f EXCEPT !.pc = "Splitting"]
           ELSE [flash(f, PyMsg(MsgNoSummary, ""), "warning") EXCEPT !.pc = "Render"]]
  /\ UNCHANGED <<HF_API_TOKEN, retries>>

\* Split keeping only the first sentence of the summary
SplitPartial(r) ==
  /\ req[r].pc = "Splitting"
  /\ LET f == req[r]
     IN  req' = [req EXCEPT ![r] =
           IF f.summary_text.t = "str"
           THEN [flash(f, PyMsg(MsgSuccess, ""), "success") EXCEPT
                   !.bullet_points = Slice(sent_tokenize(f.summary_text.v), 1),
                   !.pc = "Render"]
           ELSE [f EXCEPT !.pc = "Raised"]]
  /\ UNCHANGED <<HF_API_TOKEN, retries>>

\* lines 114-115; sent_tokenize raises TypeError on a value that is no
\* string, and nothing in summarizer() catches it
Split(r) ==
  /\ req[r].pc = "Splitting"
  /\ LET f == req[r]
     IN  req' = [req EXCEPT ![r] =
           IF f.summary_text.t = "str"
           THEN [flash(f, PyMsg(MsgSuccess, ""), "success") EXCEPT
                   !.bullet_points = sent_tokenize(f.summary_text.v),
                   !.pc = "Render"]
           ELSE [f EXCEPT !.pc = "Raised"]]
  /\ UNCHANGED <<HF_API_TOKEN, retries>>

\* Render passing the source description only along with bullet points
RenderSourceOnSuccess(r) ==
  /\ req[r].pc = "Render"
  /\ LET f == req[r]
     IN  req' = [req EXCEPT ![r] =
           [f EXCEPT !.rendered = Append(@, [bullet_points |-> f.bullet_points,
                                             source_info |->
                                               IF f.bullet_points # <<>>
                                               THEN f.source_info ELSE <<"", <<>> >>,
                                             messages |-> f.flashes]),
                     !.pc = "Responded"]]
  /\ UNCHANGED <<HF_API_TOKEN, retries>>

\* Render reading the flashed messages from one process-wide list
RenderSharedFlashes(r) ==
  /\ req[r].pc = "Render"
  /\ LET f == req[r]
         RECURSIVE All(_)
         All(n) == IF n = 0 THEN <<>> ELSE All(n - 1) \o req[n].flashes
     IN  req' = [req EXCEPT ![r] =
           [f EXCEPT !.rendered = Append(@, [bullet_points |-> f.bullet_points,
                                             source_info |-> f.source_info,
                                             messages |-> All(NumRequests)]),
                     !.pc = "Responded"]]
  /\ UNCHANGED <<HF_API_TOKEN, retries>>

\* lines 119-121: render_template with the result and the flashed messages
Render(r) ==
  /\ req[r].pc = "Render"
  /\ LET f == req[r]
     IN  req' = [req EXCEPT ![r] =
           [f EXCEPT !.rendered = Append(@, [bullet_points |-> f.bullet_points,
                                             source_info |-> f.source_info,
                                             messages |-> f.flashes]),
                     !.pc = "Responded"]]
  /\ UNCHANGED <<HF_API_TOKEN, retries>>

Handler(r) ==
  \/ Receive(r)
  \/ CheckInput(r)
  \/ Acquire(r)
  \/ CallModel(r)
  \/ CheckToken(r)
  \/ BuildPayload(r)
  \/ LoopHead(r)
  \/ Post(r)
  \/ AfterModel(r)
  \/ Split(r)
  \/ Render(r)

Next == Handler(1)

Spec == Init /\ [][Next]_vars

(* concurrent requests: the handlers of all requests interleave at every   *)
(* step; inputs and external responses are drawn from small sets           *)
ConcForms ==
  { Field(<<>>),
    Field(<<"h","t","t","p",":","/","/","a">>),
    Field(<<" ">> \o Ok \o <<" ">>) }

ConcExtractions ==
  { [raised |-> "download", e |-> "ConnectionError", text |-> <<>>],
    [raised |-> "", e |-> "", text |-> HiYo] }

ConcOutcomes ==
  { [raised |-> "ReadTimeout", status |-> 0, json |-> FALSE, body |-> PyNone],
    [raised |-> "", status |-> 200, json |-> TRUE,
     body |-> PyList(<<PyDict([summary_text |-> PyStr(HiYo)])>>)],
    [raised |-> "", status |-> 200, json |-> TRUE,
     body |-> PyList(<<PyDict([summary_text |-> PyNum(42)])>>)] }

ConcTokens == {PlaceholderText, <<"h","f","_","x","Y","z">>}

ConcInit ==
  /\ HF_API_TOKEN \in ConcTokens
  /\ retries = MaxRetries
  /\ req = [r \in Reqs |-> NewFrame]

ConcNext ==
  \E r \in Reqs :
    /\ Handler(r)
    /\ req'[r].form \in ConcForms
    /\ req'[r].article \in ConcExtractions \cup {NoArticle}
    /\ req'[r].outcome \in ConcOutcomes \cup {NoOutcome}

ConcSpec == ConcInit /\ [][ConcNext]_vars

TypeOK ==
  /\ HF_API_TOKEN \in Tokens
  /\ retries \in 1..MaxRetries
  /\ \A r \in Reqs : req[r].pc \in
       {"idle", "AwaitingInput", "Acquiring", "Acquired", "CheckToken", "Truncate",
        "LoopHead", "Posting", "Summarized", "Splitting", "Render", "Responded",
        "Raised"}

(* ======================= properties of the handler ==================== *)
\* the text the user submitted, as line 92 reads it
SubmittedInput(f) == Strip(FormGet(f.form, <<>>))

\* the messages of a sequence of flashes
HasMessage(flashes, m) == \E k \in 1..Len(flashes) : flashes[k].message.v = m

\* the messages that report a failure, one per error kind of the handler
ExtractionMessages == {MsgUrlFailed, MsgNoText}
ModelMessages == {MsgNotConfigured, MsgRequestFailed, MsgUnexpected, MsgParse, MsgRetries}
FailureMessages ==
  {MsgPleaseEnter, MsgNoSummary} \cup ExtractionMessages \cup ModelMessages

ReportsFailure(flashes) == \E m \in FailureMessages : HasMessage(flashes, m)

\* a credential that is missing, a placeholder, or the shipped default
CredentialNotConfigured(token) ==
  token = <<>> \/ Contains(token, PlaceholderText) \/ token = DefaultToken

\* the response of a successful POST carries a summary in its first element
WellFormed(response) ==
  /\ response.status = 200
  /\ response.json
  /\ response.body.t = "list"
  /\ Len(response.body.v) > 0
  /\ response.body.v[1].t = "dict"
  /\ "summary_text" \in DOMAIN response.body.v[1].v

(* C1: the summarization model is called, and the endpoint is POSTed to,   *)
(* only in a POST request whose trimmed input is non-empty and whose text  *)
(* acquisition produced non-empty article text without an extraction       *)
(* error; GET requests, empty inputs and failed extractions make no call.  *)
C1_ModelCalledOnlyAfterAcquisition ==
  \A r \in Reqs :
    LET f == req[r]
    IN  (f.calls > 0 \/ f.posts # <<>>) =>
          /\ f.method = "POST"
          /\ SubmittedInput(f) # <<>>
          /\ f.article_text.t = "str" /\ f.article_text.v # <<>>
          /\ \A m \in ExtractionMessages : ~HasMessage(f.flashes, m)

\* a request whose URL extraction failed has been answered without a call
C1_Witness ==
  \E r \in Reqs :
    /\ req[r].pc = "Responded"
    /\ req[r].fetches = 1
    /\ ~Truthy(req[r].article_text)
    /\ req[r].calls = 0 /\ req[r].posts = <<>>

(* C2: whenever the credential is missing, a placeholder or the shipped    *)
(* default, the model query returns no summary with the configuration      *)
(* error and no POST is made.                                              *)
C2_NoCredentialNoNetworkCall ==
  \A r \in Reqs :
    LET f == req[r]
    IN  CredentialNotConfigured(HF_API_TOKEN) =>
          /\ f.posts = <<>>
          /\ f.pc = "Summarized" =>
               /\ f.summary_text.t = "None"
               /\ f.error.t = "msg" /\ f.error.v = MsgNotConfigured

(* C3: every rendered bullet-point list is empty or is the whole sentence  *)
(* split of the summary of a successful, well-formed model response; it is *)
(* empty whenever a failure message was flashed.                           *)
C3_NoPartialResults ==
  \A r \in Reqs :
    \A k \in 1..Len(req[r].rendered) :
      LET f == req[r]
          p == f.rendered[k]
      IN  /\ p.bullet_points # <<>> =>
                /\ f.error.t = "None"
                /\ f.summary_text.t = "str"
                /\ WellFormed(f.response_obj)
                /\ f.summary_text = f.response_obj.body.v[1].v.summary_text
                /\ p.bullet_points = sent_tokenize(f.summary_text.v)
          /\ ReportsFailure(p.messages) => p.bullet_points = <<>>

\* a two-sentence summary has been rendered as two bullet points
C3_Witness ==
  \E r \in Reqs :
    /\ req[r].pc = "Responded"
    /\ Len(req[r].rendered) = 1
    /\ Len(req[r].rendered[1].bullet_points) = 2

(* C4: every failure of a request is recovered inside the handler: no      *)
(* exception leaves summarizer(), the splitting step always succeeds, and  *)
(* a failed request ends rendered with an empty result and a message.      *)
C4_EveryFailureRecovered ==
  \A r \in Reqs :
    LET f == req[r]
    IN  /\ f.pc # "Raised"
        /\ (f.pc = "Responded" /\ f.method = "POST" /\ f.bullet_points = <<>>) =>
              Len(f.rendered) = 1 /\ Len(f.rendered[1].messages) >= 1

\* the request has been answered without a success message
Failed(f) ==
  f.pc = "Responded" /\ f.method = "POST" /\ ~HasMessage(f.flashes, MsgSuccess)

FailureFlashes(flashes) ==
  {k \in 1..Len(flashes) : flashes[k].message.v \in FailureMessages}

(* C5 as stated: every failed request has flashed exactly one message.     *)
C5_SingleMessagePerFailure ==
  \A r \in Reqs : Failed(req[r]) => Len(req[r].flashes) = 1

(* C5 amended: every failed request has flashed exactly one message that   *)
(* reports the failure, and it is the last one flashed; a request failing  *)
(* in acquisition flashed nothing else, one failing in summarization also  *)
(* flashed the "Content acquired" message before it and, when the text was *)
(* truncated, the truncation warning.                                      *)
C5_SingleFailureMessage ==
  \A r \in Reqs :
    LET f == req[r]
        n == Len(f.flashes)
        truncated == HasMessage(f.flashes, MsgTruncated)
    IN  Failed(f) =>
          /\ FailureFlashes(f.flashes) = {n}
          /\ n = 1 + f.calls + (IF truncated THEN 1 ELSE 0)
          /\ f.calls = 0 => f.flashes[1].message.v \in
                               {MsgPleaseEnter} \cup ExtractionMessages
          /\ f.calls = 1 =>
               /\ f.flashes[1].message.v = MsgAcquired
               /\ f.flashes[n].message.v \in ModelMessages \cup {MsgNoSummary}
               /\ truncated => f.flashes[2].message.v = MsgTruncated

\* a request whose model call failed after truncation has been answered
C5_Witness ==
  \E r \in Reqs :
    /\ Failed(req[r])
    /\ Len(req[r].flashes) = 3
    /\ req[r].flashes[3].message.v = MsgRequestFailed

(* C6: for every declared retry count the query issues at most one POST:   *)
(* the first attempt always returns, the loop index never advances, and    *)
(* the "failed after multiple retries" result is never produced.           *)
C6_AtMostOnePost ==
  \A r \in Reqs :
    LET f == req[r]
    IN  /\ Len(f.posts) <= 1
        /\ f.i = 0
        /\ f.pc \in {"LoopHead", "Posting"} => f.posts = <<>>
        /\ f.error.t = "msg" => f.error.v # MsgRetries
        /\ ~HasMessage(f.flashes, MsgRetries)

\* a failed first attempt has ended the query although retries remain
C6_Witness ==
  \E r \in Reqs :
    /\ retries > 1
    /\ req[r].pc = "Summarized"
    /\ Len(req[r].posts) = 1
    /\ req[r].error.t = "msg" /\ req[r].error.v = MsgRequestFailed

\* the number of truncation warnings flashed
TruncationWarnings(flashes) ==
  Cardinality({k \in 1..Len(flashes) : flashes[k].message.v = MsgTruncated})

(* C7: with a configured credential, a text longer than 5120 characters is *)
(* sent as exactly its first 5120 characters with one truncation warning   *)
(* and the POST is still made; a text of at most 5120 characters is sent   *)
(* unchanged with no truncation warning.                                   *)
C7_TruncationToBudget ==
  \A r \in Reqs :
    LET f == req[r]
        text == f.article_text.v
        long == Len(text) > 5120
        expected == IF long THEN SubSeq(text, 1, 5120) ELSE text
    IN  (~CredentialNotConfigured(HF_API_TOKEN) /\ f.calls = 1) =>
          /\ f.pc \in {"LoopHead", "Posting"} =>
               /\ f.payload.inputs = expected
               /\ f.payload.parameters = parameters
               /\ TruncationWarnings(f.flashes) = IF long THEN 1 ELSE 0
          /\ f.pc \in {"Summarized", "Splitting", "Render", "Responded", "Raised"} =>
               /\ Len(f.posts) = 1
               /\ f.posts[1].json.inputs = expected
               /\ Len(f.posts[1].json.inputs) <= 5120
               /\ TruncationWarnings(f.flashes) = IF long THEN 1 ELSE 0

\* a text of more than 5120 characters has been posted
C7_Witness ==
  \E r \in Reqs :
    /\ ~CredentialNotConfigured(HF_API_TOKEN)
    /\ Len(req[r].article_text.v) > 5120
    /\ Len(req[r].posts) = 1
    /\ Len(req[r].posts[1].json.inputs) = 5120

\* the query has returned into the handler
QueryReturned(f) ==
  f.calls = 1 /\ f.pc \in {"Summarized", "Splitting", "Render", "Responded", "Raised"}

(* C8: the query never returns a summary together with an error, and it    *)
(* returns a summary only after one POST that succeeded with a well-formed *)
(* response, whose summary field it is.                                    *)
C8_SummaryOrErrorNeverBoth ==
  \A r \in Reqs :
    LET f == req[r]
    IN  QueryReturned(f) =>
          /\ ~(f.summary_text.t # "None" /\ f.error.t # "None")
          /\ f.summary_text.t # "None" =>
               /\ Len(f.posts) = 1
               /\ WellFormed(f.response_obj)
               /\ f.summary_text = f.response_obj.body.v[1].v.summary_text

\* the query has returned a summary
C8_Witness ==
  \E r \in Reqs :
    /\ QueryReturned(req[r])
    /\ req[r].summary_text.t = "str"
    /\ req[r].error.t = "None"

(* C9: after a successful HTTP response the query yields a summary exactly *)
(* when the body is a non-empty sequence whose first element carries       *)
(* summary_text, and every other body yields the parse error and no other. *)
C9_OtherShapesAreParseErrors ==
  \A r \in Reqs :
    LET f == req[r]
    IN  (QueryReturned(f) /\ f.response_obj.status = 200) =>
          IF WellFormed(f.response_obj)
          THEN f.error.t = "None"
          ELSE f.summary_text.t = "None" /\ f.error.t = "msg" /\ f.error.v = MsgParse

\* the state of the orchestrator a request is in
OrchState(f) ==
  CASE f.pc = "idle" -> "None"
    [] f.pc = "AwaitingInput" -> "AwaitingInput"
    [] f.pc \in {"Acquiring", "Acquired"} -> "Acquiring"
    [] f.pc \in {"CheckToken", "Truncate", "LoopHead", "Posting", "Summarized"} ->
         "Summarizing"
    [] f.pc = "Splitting" -> "Splitting"
    [] f.pc \in {"Render", "Responded"} ->
         IF ReportsFailure(f.flashes) THEN "Error" ELSE "Done"
    [] f.pc = "Raised" -> "Raised"

\* summarizer() has been left, by return or by an exception
HandlerLeft(f) == f.pc \in {"Responded", "Raised"}

(* C10: every POST request ends in Done or Error having rendered exactly   *)
(* one payload.                                                            *)
C10_EveryPostEndsRendered ==
  \A r \in Reqs :
    LET f == req[r]
    IN  (f.method = "POST" /\ HandlerLeft(f)) =>
          /\ OrchState(f) \in {"Done", "Error"}
          /\ Len(f.rendered) = 1


\* s starts with "http" in any mix of upper and lower case
HttpPrefixed(s) ==
  /\ Len(s) >= 4
  /\ s[1] \in {"h", "H"} /\ s[2] \in {"t", "T"}
  /\ s[3] \in {"t", "T"} /\ s[4] \in {"p", "P"}

\* the handler has read and classified the input of a POST request
Classified(f) == f.method = "POST" /\ f.pc \notin {"idle", "AwaitingInput"}

\* the request fetches, or has fetched, a page
Fetches(f) == f.pc = "Acquiring" \/ f.fetches > 0

\* acquisition for the input `input`: a non-empty input without the prefix
\* becomes the article text with no error and no fetch, and a page is
\* fetched exactly for the inputs with the prefix
AcquisitionOf(f, input) ==
  /\ (input # <<>> /\ ~HttpPrefixed(input)) =>
        /\ f.article_text = PyStr(input)
        /\ f.pc = "Acquired" => f.error.t = "None"
        /\ \A m \in ExtractionMessages \cup {MsgPleaseEnter} : ~HasMessage(f.flashes, m)
        /\ ~Fetches(f)
  /\ Fetches(f) <=> HttpPrefixed(input)
  /\ f.fetches <= 1

(* C11 as stated, for the input as submitted: every non-empty input that   *)
(* does not start with "http" (any case) is returned unchanged as article  *)
(* text with no error and no fetch, and exactly the inputs starting with   *)
(* "http" are fetched.                                                     *)
C11_SubmittedInputUnchanged ==
  \A r \in Reqs :
    Classified(req[r]) => AcquisitionOf(req[r], FormGet(req[r].form, <<>>))

(* C11 amended: the same for the input after trimming whitespace: a        *)
(* trimmed input that is non-empty and does not start with "http" (any     *)
(* case) is the article text, with no error and no fetch, and a page is    *)
(* fetched exactly when the trimmed input starts with "http".              *)
C11_TrimmedInputUnchanged ==
  \A r \in Reqs :
    Classified(req[r]) =>
      /\ req[r].user_input = SubmittedInput(req[r])
      /\ AcquisitionOf(req[r], SubmittedInput(req[r]))

\* a padded pasted text has become the article text without its padding
C11_Witness ==
  \E r \in Reqs :
    /\ Classified(req[r])
    /\ req[r].pc = "Acquired"
    /\ req[r].article_text = PyStr(Ok)
    /\ FormGet(req[r].form, <<>>) # Ok
    /\ req[r].fetches = 0


\* the summary field of a well-formed response
SummaryField(response) == response.body.v[1].v.summary_text

\* the request was answered after text was acquired and a configured
\* credential obtained a well-formed response with a non-empty summary
SuccessPath(f) ==
  /\ f.pc = "Responded" /\ f.method = "POST"
  /\ Truthy(f.article_text)
  /\ ~CredentialNotConfigured(HF_API_TOKEN)
  /\ WellFormed(f.response_obj)
  /\ SummaryField(f.response_obj).t = "str"
  /\ SummaryField(f.response_obj).v # <<>>

\* the source description the handler gives for a trimmed input
SourceFor(input) ==
  IF HttpPrefixed(input) THEN <<"From URL: ", input>> ELSE <<"From Pasted Text", <<>> >>

(* C12: on the success path the rendered bullet points are the sentences   *)
(* of the returned summary in their order, the source description is       *)
(* "From Pasted Text" or "From URL: <input>", and the success message is   *)
(* the last message flashed.                                               *)
C12_SuccessPathRendering ==
  \A r \in Reqs :
    LET f == req[r]
    IN  SuccessPath(f) =>
          LET p == f.rendered[1]
              summary == SummaryField(f.response_obj).v
          IN  /\ Len(f.rendered) = 1
              /\ p.bullet_points = sent_tokenize(summary)
              /\ summary = HiYo =>
                   p.bullet_points = << <<"H","i",".">>, <<"Y","o",".">> >>
              /\ summary = Ok => p.bullet_points = <<Ok>>
              /\ p.source_info = SourceFor(SubmittedInput(f))
              /\ p.messages[Len(p.messages)] =
                   [category |-> "success", message |-> PyMsg(MsgSuccess, "")]

\* a URL's article has been summarised into two bullet points
C12_Witness ==
  \E r \in Reqs :
    /\ SuccessPath(req[r])
    /\ req[r].fetches = 1
    /\ Len(req[r].rendered[1].bullet_points) = 2
    /\ req[r].rendered[1].source_info[1] = "From URL: "


\* the failure mode of an extraction
FailureMode(x) ==
  IF x.raised = "download" THEN "network"
  ELSE IF x.raised = "parse" THEN "parse"
  ELSE IF x.text = <<>> THEN "empty" ELSE "none"

\* get_text_from_url has returned into line 100
Extracted(f) == f.pc = "Acquired" /\ f.fetches = 1

(* C13 as stated: a failed extraction returns no text and an error string  *)
(* that no extraction failing in another of the three modes (network,      *)
(* parse, empty text) returns; a successful one returns the text and no    *)
(* error.                                                                  *)
C13_ThreeDistinctErrorStrings ==
  \A r \in Reqs :
    LET f == req[r]
    IN  Extracted(f) =>
          IF FailureMode(f.article) = "none"
          THEN f.article_text = PyStr(f.article.text) /\ f.error.t = "None"
          ELSE /\ f.article_text.t = "None"
               /\ f.error.t = "msg"
               /\ \A x \in Extractions :
                    FailureMode(x) \notin {"none", FailureMode(f.article)} =>
                      get_text_from_url(x)[2] # f.error

(* C13 amended: an exception raised by download or by parse returns no     *)
(* text and the message "Failed to process the URL. ... Error: " followed  *)
(* by the exception text, the same form for both; empty extracted text     *)
(* returns no text and the fixed "Could not extract article text" message, *)
(* which no exception gives; success returns the text and no error.        *)
C13_TwoErrorForms ==
  \A r \in Reqs :
    LET f == req[r]
        mode == FailureMode(f.article)
    IN  Extracted(f) =>
          /\ mode \in {"network", "parse"} =>
               /\ f.article_text.t = "None"
               /\ f.error = PyMsg(MsgUrlFailed, f.article.e)
          /\ mode = "empty" =>
               /\ f.article_text.t = "None"
               /\ f.error = PyMsg(MsgNoText, "")
               /\ \A x \in Extractions :
                    FailureMode(x) \in {"network", "parse"} =>
                      get_text_from_url(x)[2] # f.error
          /\ mode = "none" =>
               /\ f.article_text = PyStr(f.article.text)
               /\ f.error.t = "None"
          /\ f.error.t = "msg" =>
               f.flashes = <<[category |-> "danger", message |-> f.error]>>

\* the page was empty and the extraction has returned its message
C13_Witness ==
  \E r \in Reqs :
    /\ Extracted(req[r])
    /\ FailureMode(req[r].article) = "empty"
    /\ req[r].error.t = "msg"


\* one flashed message
Flashed(category, message) == [category |-> category, message |-> message]

\* what summarizer() renders when it runs from start to end on its own for
\* the request (method, form), the extraction x, the POST outcome o with
\* json() failure kind j, and the credential token: the sequence of its
\* rendered payloads (empty if the handler is left by an exception)
RenderedAlone(method, form, x, o, j, token) ==
  LET input == Strip(FormGet(form, <<>>))
      isUrl == StartsWith(Lower(input), <<"h","t","t","p">>)
      got == IF isUrl THEN get_text_from_url(x) ELSE <<PyStr(input), PyNone>>
      source == IF isUrl THEN <<"From URL: ", input>> ELSE <<"From Pasted Text", <<>> >>
      m1 == IF Truthy(got[2]) THEN <<Flashed("danger", got[2])>> ELSE <<>>
      m2 == Append(m1, Flashed("info", PyMsg(MsgAcquired, "")))
      rejected == TokenRejected(token)
      m3 == IF ~rejected /\ Len(got[1].v) > max_input_length
            THEN Append(m2, Flashed("warning", PyMsg(MsgTruncated, ""))) ELSE m2
      res == IF rejected THEN <<PyNone, PyMsg(MsgNotConfigured, "")>>
             ELSE AttemptResult(o, j)
      Payload(b, src, m) == <<[bullet_points |-> b, source_info |-> src, messages |-> m]>>
  IN  IF method # "POST" THEN Payload(<<>>, <<"", <<>> >>, <<>>)
      ELSE IF input = <<>>
      THEN Payload(<<>>, <<"", <<>> >>,
                   <<Flashed("warning", PyMsg(MsgPleaseEnter, ""))>>)
      ELSE IF ~Truthy(got[1]) THEN Payload(<<>>, source, m1)
      ELSE IF Truthy(res[2])
      THEN Payload(<<>>, source, Append(m3, Flashed("danger", res[2])))
      ELSE IF ~Truthy(res[1])
      THEN Payload(<<>>, source,
                   Append(m3, Flashed("warning", PyMsg(MsgNoSummary, ""))))
      ELSE IF res[1].t = "str"
      THEN Payload(sent_tokenize(res[1].v), source,
                   Append(m3, Flashed("success", PyMsg(MsgSuccess, ""))))
      ELSE <<>>

\* every finished request rendered what it renders when run alone
PayloadsAsAlone ==
  \A r \in Reqs :
    LET f == req[r]
    IN  HandlerLeft(f) =>
          f.rendered = RenderedAlone(f.method, f.form, f.article, f.outcome,
                                     f.json_error, HF_API_TOKEN)

\* a step leaves the configuration alone and changes one request's frame
StepIsLocal ==
  /\ HF_API_TOKEN' = HF_API_TOKEN
  /\ retries' = retries
  /\ \A r, q \in Reqs : (req'[r] # req[r] /\ q # r) => req'[q] = req[q]

(* C14: under every interleaving of the requests' handlers no step writes  *)
(* the API token or the retry count or another request's frame, and every  *)
(* finished request has rendered the payload it renders when run alone on  *)
(* the same input with the same external responses.                        *)
C14_RequestsDoNotInterfere == [][StepIsLocal]_vars /\ []PayloadsAsAlone

\* two requests have been answered, one with bullet points and one with a
\* failure message
C14_Witness ==
  \E r, q \in Reqs :
    /\ r # q
    /\ req[r].pc = "Responded" /\ req[r].rendered[1].bullet_points # <<>>
    /\ req[q].pc = "Responded" /\ ReportsFailure(req[q].rendered[1].messages)
    /\ req[r].rendered[1].messages # req[q].rendered[1].messages


\* the query returned no error and an empty or absent summary
EmptySummaryReturned(f) ==
  /\ QueryReturned(f)
  /\ f.error.t = "None"
  /\ \/ f.summary_text.t = "None"
     \/ f.summary_text.t = "str" /\ f.summary_text.v = <<>>

(* C15: when the query returns no error and an empty or absent summary,    *)
(* the sentence splitter is not run, no success message is flashed, the    *)
(* "The model did not return a summary." warning is the last message, the  *)
(* request ends in Error and the rendered bullet points are empty.         *)
C15_EmptySummaryIsAnError ==
  \A r \in Reqs :
    LET f == req[r]
    IN  EmptySummaryReturned(f) =>
          /\ f.pc \notin {"Splitting", "Raised"}
          /\ f.bullet_points = <<>>
          /\ ~HasMessage(f.flashes, MsgSuccess)
          /\ f.pc \in {"Render", "Responded"} =>
               /\ f.flashes[Len(f.flashes)] =
                    Flashed("warning", PyMsg(MsgNoSummary, ""))
               /\ OrchState(f) = "Error"
          /\ f.pc = "Responded" =>
               /\ Len(f.rendered) = 1
               /\ f.rendered[1].bullet_points = <<>>
               /\ HasMessage(f.rendered[1].messages, MsgNoSummary)

\* a response whose summary_text is the empty string has been answered
C15_Witness ==
  \E r \in Reqs :
    /\ EmptySummaryReturned(req[r])
    /\ req[r].pc = "Responded"
    /\ req[r].summary_text = PyStr(<<>>)
    /\ HasMessage(req[r].rendered[1].messages, MsgNoSummary)

\* the request carries no input: a GET, or a POST whose trimmed input is empty
NoInput(f) == f.method = "GET" \/ SubmittedInput(f) = <<>>

(* C16: when the handler is left the source description is empty exactly   *)
(* for a GET or an empty trimmed input, and otherwise it is "From URL:     *)
(* <input>" or "From Pasted Text" according to the input alone, also when  *)
(* the request failed; the rendered payload carries that description.      *)
C16_SourceDependsOnInputOnly ==
  \A r \in Reqs :
    LET f == req[r]
        expected == IF NoInput(f) THEN <<"", <<>> >> ELSE SourceFor(SubmittedInput(f))
    IN  HandlerLeft(f) =>
          /\ f.source_info = expected
          /\ f.source_info = <<"", <<>> >> <=> NoInput(f)
          /\ f.pc = "Responded" =>
               /\ Len(f.rendered) = 1
               /\ f.rendered[1].source_info = expected

\* a request whose extraction failed has rendered its URL as the source
C16_Witness ==
  \E r \in Reqs :
    /\ req[r].pc = "Responded"
    /\ req[r].fetches = 1
    /\ ReportsFailure(req[r].rendered[1].messages)
    /\ req[r].rendered[1].bullet_points = <<>>
    /\ req[r].rendered[1].source_info = <<"From URL: ", req[r].user_input>>

====
